---------------------------- MODULE Spec2Model ----------------------------
(***************************************************************************)
(* A model of DeFreeze (src/main.py): the gap detector's marker pairing,   *)
(* the two-pointer interval merger, the cut planner and encode job of      *)
(* cut_gaps_with_analysis / encode_wrapper, and the two-phase batch driver *)
(* main with its worker pool.                                              *)
(*                                                                         *)
(* Time stamps are whole numbers of ticks.  In the specifications of the   *)
(* job and of the batch one tick is 0.5 ms, so that the planner's 0.001 s  *)
(* adjacency test is Epsilon = 2 ticks and the 1.5 s threshold that        *)
(* cut_gaps_with_analysis passes to the merger is MinDuration = 3000.      *)
(* float() of a matched "\d+\.\d+" is the tick count it denotes; rounding  *)
(* of binary floating point is not modelled.                               *)
(***************************************************************************)
EXTENDS Integers, Sequences, FiniteSets

VARIABLES
    \* ---- the pure-function harnesses ----
    video_gaps,       \* merge_intervals: first argument
    audio_gaps,       \* merge_intervals: second argument
    min_duration,     \* merge_intervals: threshold
    merged,           \* merge_intervals: returned list
    mpc,              \* "start" | "done"
    \* ---- the batch (main, analyze_file, encode_wrapper) ----
    threads,          \* args.threads
    force,            \* args.forceEncode
    files_to_process, \* the files selected by discovery, in order
    media,            \* per file: what ffmpeg prints for it, and its length
    main_pc,          \* where main is
    idx,              \* main's loop position (analysis, then submission)
    analyzing,        \* files whose analyze_file call is in progress
    analysis_results, \* list of jobs built by the analysis loop
    queue,            \* the pool's work queue (submitted, not yet started)
    future,           \* per file: state of its future and its exception
    futures,          \* the list of futures, in submission order
    collected,        \* futures main has taken from as_completed
    plan,             \* per file: the command cut_gaps_with_analysis built
    step,             \* per file: "none", or how the copy/encode step ended
    input_exists,     \* per file: the input file is on disk
    output,           \* per file: what is at the output path
    stdout            \* the lines printed so far (as a set)

mergeVars == <<video_gaps, audio_gaps, min_duration, merged, mpc>>
batchVars == <<threads, force, files_to_process, media, main_pc, idx, analyzing,
               analysis_results, queue, future, futures, collected, plan, step,
               input_exists, output, stdout>>
vars == <<mergeVars, batchVars>>

---------------------------------------------------------------------------
(* Bounds of the model *)

MaxLen == 2          \* longest gap list given to the merger harness
MaxTime == 3         \* largest time stamp in the merger harness
MaxThreshold == 2    \* largest threshold in the merger harness
MaxEvents == 3       \* longest marker stream in the detector harness
MaxGaps == 2         \* longest freeze / silence list of a job
NumFiles == 2        \* most files in a batch
MaxThreads == 2      \* largest --threads

(* Program constants, in ticks of 0.5 ms *)

MinDuration == 3000  \* min_duration=1.5
Epsilon == 2         \* 0.001

---------------------------------------------------------------------------
(* Helpers *)

Max(a, b) == IF a >= b THEN a ELSE b
Min(a, b) == IF a <= b THEN a ELSE b
Abs(a) == IF a >= 0 THEN a ELSE -a
Range(s) == {s[k] : k \in DOMAIN s}

---------------------------------------------------------------------------
(* detect_freezes / detect_silences: pairing of the parsed markers.        *)
(* re.findall with the alternation "X_start: (..)|X_end: (..)" returns one *)
(* tuple (start_time, end_time) per match, exactly one of them non-empty.  *)

Empty == -1          \* an unmatched group (the empty string)
None == -2           \* Python's None

\* a plausible slip: the pending start survives the pair
ResetStartKept(start) == start
\* "start = None" after a pair is appended
ResetStart(start) == None

RECURSIVE DetectLoop(_, _, _, _)
DetectLoop(timestamps, k, start, ranges) ==
    IF k > Len(timestamps) THEN ranges
    ELSE LET start_time == timestamps[k][1]
             end_time == timestamps[k][2]
             start1 == IF start_time # Empty THEN start_time ELSE start
         IN IF end_time # Empty /\ start1 # None
            THEN DetectLoop(timestamps, k + 1, ResetStart(start1),
                            Append(ranges, <<start1, end_time>>))
            ELSE DetectLoop(timestamps, k + 1, start1, ranges)

detect_freezes(timestamps) == DetectLoop(timestamps, 1, None, <<>>)
detect_silences(timestamps) == DetectLoop(timestamps, 1, None, <<>>)

---------------------------------------------------------------------------
(* merge_intervals *)

Overlap(v, a) == <<Max(v[1], a[1]), Min(v[2], a[2])>>

QualifiesStrictOnly(overlap_start, overlap_end, t) ==
    overlap_end > overlap_start /\ (overlap_end - overlap_start) > t
QualifiesNoOrder(overlap_start, overlap_end, t) ==
    (overlap_end - overlap_start) >= t
Qualifies(overlap_start, overlap_end, t) ==
    overlap_end > overlap_start /\ (overlap_end - overlap_start) >= t

AdvanceVideoReversed(v_end, a_end) == v_end > a_end
AdvanceVideo(v_end, a_end) == v_end < a_end

RECURSIVE MergeLoop(_, _, _, _, _, _)
MergeLoop(vg, ag, t, i, j, acc) ==
    IF ~(i <= Len(vg) /\ j <= Len(ag)) THEN acc
    ELSE LET o == Overlap(vg[i], ag[j])
             acc1 == IF Qualifies(o[1], o[2], t) THEN Append(acc, o) ELSE acc
         IN IF AdvanceVideo(vg[i][2], ag[j][2])
            THEN MergeLoop(vg, ag, t, i + 1, j, acc1)
            ELSE MergeLoop(vg, ag, t, i, j + 1, acc1)

merge_intervals(vg, ag, t) == MergeLoop(vg, ag, t, 1, 1, <<>>)

---------------------------------------------------------------------------
(* cut_gaps_with_analysis: the command it builds.  A plan is               *)
(*   op    "copy" (shutil.copy), "reencode" (one whole-file ffmpeg run) or *)
(*         "concat" (trim + concat filter graph)                           *)
(*   segs  the "-ss a -to b -i file" inputs, as pairs <<a, b>>             *)
(*   tail  the start of the last, open-ended "-ss a -i file" input         *)
(*   n     the n of "concat=n=..." (0: no filter graph)                    *)

NoPlan == [op |-> "none", segs |-> <<>>, tail |-> None, n |-> 0]

NoGapPlanSwapped(f) ==
    [op |-> IF f THEN "copy" ELSE "reencode", segs |-> <<>>, tail |-> None, n |-> 0]
NoGapPlan(f) ==
    [op |-> IF f THEN "reencode" ELSE "copy", segs |-> <<>>, tail |-> None, n |-> 0]

SkipSegment(last_end, start) == last_end > 0 /\ Abs(last_end - start) <= Epsilon

RECURSIVE PlanLoop(_, _, _, _)
PlanLoop(gaps, k, last_end, inputs) ==
    IF k > Len(gaps)
    THEN [op |-> "concat", segs |-> inputs, tail |-> last_end, n |-> Len(inputs) + 1]
    ELSE LET start == gaps[k][1]
             end == gaps[k][2]
         IN IF SkipSegment(last_end, start)
            THEN PlanLoop(gaps, k + 1, last_end, inputs)
            ELSE PlanLoop(gaps, k + 1, end, Append(inputs, <<last_end, start>>))

cut_gaps_with_analysis(freezes, silences, f) ==
    LET gaps == merge_intervals(freezes, silences, MinDuration)
    IN IF gaps = <<>> THEN NoGapPlan(f) ELSE PlanLoop(gaps, 1, 0, <<>>)

---------------------------------------------------------------------------
(* The inputs the specifications draw from *)

\* lists of at most n intervals over T, sorted by start, non-overlapping;
\* strict: every interval has positive length
GapListsOver(T, n, strict) ==
    {s \in UNION {[1..k -> T \X T] : k \in 0..n} :
        /\ \A k \in DOMAIN s : IF strict THEN s[k][1] < s[k][2] ELSE s[k][1] <= s[k][2]
        /\ \A k \in DOMAIN s : k < Len(s) => s[k][2] <= s[k + 1][1]}

MergeLists == GapListsOver(0..MaxTime, MaxLen, FALSE)
Thresholds == 0..MaxThreshold

\* marker streams of the detector harness: any order, any pairing
DetectTimes == {1, 2}
Markers(T) == {<<t, Empty>> : t \in T} \cup {<<Empty, t>> : t \in T}
DetectLogs == UNION {[1..k -> Markers(DetectTimes)] : k \in 0..MaxEvents}

\* what ffmpeg prints for a list of ranges: X_start, X_end, X_start, ...
LogOf(ranges) ==
    [k \in 1..(2 * Len(ranges)) |->
        IF k % 2 = 1 THEN <<ranges[(k + 1) \div 2][1], Empty>>
                     ELSE <<Empty, ranges[k \div 2][2]>>]

\* the job specification: every pair of freeze / silence lists over these
\* instants (0, 1.4995 s, 1.5 s, 1.501 s, 3.001 s, 3.0025 s, 4.5025 s)
JobTimes == {0, 2999, 3000, 3002, 6002, 6005, 9005}
JobLists == GapListsOver(JobTimes, MaxGaps, TRUE)
JobMedia ==
    {[freeze_log |-> LogOf(fr), silence_log |-> LogOf(si), duration |-> d] :
        fr \in JobLists, si \in JobLists,
        d \in {9005}}

\* the batch specification: a file with no marker, one with a single dead
\* region, one with two dead regions 1 ms apart, one whose freeze and
\* silence never coincide
BatchMedia ==
    {[freeze_log |-> <<>>, silence_log |-> <<>>, duration |-> 9005],
     [freeze_log |-> LogOf(<<<<2999, 6005>>>>),
      silence_log |-> LogOf(<<<<0, 9005>>>>), duration |-> 9005],
     [freeze_log |-> LogOf(<<<<0, 9005>>>>),
      silence_log |-> LogOf(<<<<0, 3000>>, <<3002, 6005>>>>), duration |-> 9005],
     [freeze_log |-> LogOf(<<<<0, 3000>>>>),
      silence_log |-> LogOf(<<<<6002, 9005>>>>), duration |-> 9005]}

---------------------------------------------------------------------------
(* The merger harness *)

MergeIdle ==
    /\ video_gaps = <<>> /\ audio_gaps = <<>> /\ min_duration = 0
    /\ merged = <<>> /\ mpc = "idle"

MergeInit ==
    /\ video_gaps \in MergeLists
    /\ audio_gaps \in MergeLists
    /\ min_duration \in Thresholds
    /\ merged = <<>>
    /\ mpc = "start"

MergeRun ==
    /\ mpc = "start"
    /\ merged' = merge_intervals(video_gaps, audio_gaps, min_duration)
    /\ mpc' = "done"
    /\ UNCHANGED <<video_gaps, audio_gaps, min_duration, batchVars>>

---------------------------------------------------------------------------
(* The batch: main, analyze_file, the pool, encode_wrapper *)

Files == Range(files_to_process)
NoFuture == [state |-> "none", exc |-> FALSE]
Running == {f \in Files : future[f].state = "running"}

BatchStart(n) ==
    /\ files_to_process = [k \in 1..n |-> k]
    /\ main_pc = "analyze"
    /\ idx = 1
    /\ analyzing = {}
    /\ analysis_results = <<>>
    /\ queue = <<>>
    /\ future = [f \in 1..n |-> NoFuture]
    /\ futures = <<>>
    /\ collected = {}
    /\ plan = [f \in 1..n |-> NoPlan]
    /\ step = [f \in 1..n |-> "none"]
    /\ input_exists = [f \in 1..n |-> TRUE]
    /\ output = [f \in 1..n |-> "none"]
    /\ stdout = {<<"Starting analysis", n>>}

BatchIdle ==
    /\ threads = 1 /\ force = FALSE /\ media = <<>>
    /\ BatchStart(0)

BatchInit ==
    /\ threads \in 1..MaxThreads
    /\ force \in BOOLEAN
    /\ \E n \in 0..NumFiles :
          /\ media \in [1..n -> BatchMedia]
          /\ BatchStart(n)

\* the analysis loop has gone through files_to_process
AnalysisLoopDoneEarly == idx > 1 \/ idx > Len(files_to_process)
AnalysisLoopDone == idx > Len(files_to_process)

\* analyze_file is entered: "Analyzing: f", the first ffmpeg pass is started
AnalyzeStart ==
    /\ main_pc = "analyze"
    /\ ~AnalysisLoopDone
    /\ LET f == files_to_process[idx]
       IN /\ analyzing' = analyzing \cup {f}
          /\ stdout' = stdout \cup {<<"Analyzing", f>>}
    /\ main_pc' = "analyzing"
    /\ UNCHANGED <<mergeVars, threads, force, files_to_process, media, idx,
                   analysis_results, queue, future, futures, collected, plan,
                   step, input_exists, output>>

\* both passes have run; their stderr is parsed and the job is appended
AnalyzeFinish ==
    /\ main_pc = "analyzing"
    /\ LET f == files_to_process[idx]
       IN /\ analysis_results' = Append(analysis_results,
                 [input_file |-> f,
                  freezes |-> detect_freezes(media[f].freeze_log),
                  silences |-> detect_silences(media[f].silence_log),
                  force |-> force])
          /\ analyzing' = analyzing \ {f}
    /\ idx' = idx + 1
    /\ main_pc' = "analyze"
    /\ UNCHANGED <<mergeVars, threads, force, files_to_process, media, queue,
                   future, futures, collected, plan, step, input_exists, output,
                   stdout>>

\* subprocess.run cannot start ffmpeg (OSError): nothing catches it in main
AnalyzeFail ==
    /\ main_pc = "analyzing"
    /\ analyzing' = analyzing \ {files_to_process[idx]}
    /\ main_pc' = "raised"
    /\ UNCHANGED <<mergeVars, threads, force, files_to_process, media, idx,
                   analysis_results, queue, future, futures, collected, plan,
                   step, input_exists, output, stdout>>

\* "Encoding using N threads...": the pool is created
StartEncoding ==
    /\ main_pc = "analyze"
    /\ AnalysisLoopDone
    /\ stdout' = stdout \cup {<<"Encoding using threads", threads>>}
    /\ idx' = 1
    /\ main_pc' = IF analysis_results = <<>> THEN "collect" ELSE "submit"
    /\ UNCHANGED <<mergeVars, threads, force, files_to_process, media, analyzing,
                   analysis_results, queue, future, futures, collected, plan,
                   step, input_exists, output>>

\* executor.submit(encode_wrapper, job) for the next job of analysis_results
Submit ==
    /\ main_pc = "submit"
    /\ LET f == analysis_results[idx].input_file
       IN /\ future' = [future EXCEPT ![f] = [state |-> "pending", exc |-> FALSE]]
          /\ futures' = Append(futures, f)
          /\ queue' = Append(queue, idx)
    /\ idx' = idx + 1
    /\ main_pc' = IF idx + 1 > Len(analysis_results) THEN "collect" ELSE "submit"
    /\ UNCHANGED <<mergeVars, threads, force, files_to_process, media, analyzing,
                   analysis_results, collected, plan, step, input_exists, output,
                   stdout>>

\* a worker takes the oldest work item: encode_wrapper prints "Encoding: f",
\* cut_gaps_with_analysis merges, builds its command and starts it
WorkerStart ==
    /\ queue # <<>>
    /\ Cardinality(Running) < threads
    /\ LET job == analysis_results[Head(queue)]
           f == job.input_file
           p == cut_gaps_with_analysis(job.freezes, job.silences, job.force)
       IN /\ future' = [future EXCEPT ![f].state = "running"]
          /\ plan' = [plan EXCEPT ![f] = p]
          /\ stdout' = stdout \cup {<<"Encoding", f>>}
                          \cup (IF p.op = "concat" THEN {}
                                ELSE {<<"No significant gaps", f>>})
    /\ queue' = Tail(queue)
    /\ UNCHANGED <<mergeVars, threads, force, files_to_process, media, main_pc,
                   idx, analyzing, analysis_results, futures, collected, step,
                   input_exists, output>>

\* "if cut_gaps_with_analysis(...): os.unlink(input_file)": whether the
\* unlink is reached, given how the copy/encode step ended
UnlinkAlways(outcome) == TRUE
Unlinks(outcome) == outcome = "ok"

\* "except Exception as e": the step's CalledProcessError / OSError is caught
Catches(outcome) == TRUE

\* the copy or the ffmpeg run of job f ends, and encode_wrapper with it.
\* os.unlink of the job's own input, which the step has just read, and the
\* print calls are taken to return; a failed step may leave anything at the
\* output path ("partial": nothing cleans it up)
EncodeFinish(f) ==
    /\ future[f].state = "running"
    /\ \E outcome \in {"ok", "raised"} :
          /\ step' = [step EXCEPT ![f] = outcome]
          /\ output' = [output EXCEPT ![f] =
                            IF outcome = "ok" THEN plan[f].op ELSE "partial"]
          /\ input_exists' = [input_exists EXCEPT ![f] =
                                  IF Unlinks(outcome) THEN FALSE ELSE @]
          /\ stdout' = stdout \cup
                          {IF outcome = "ok" THEN <<"Finished", f>>
                                             ELSE <<"Error encoding", f>>}
          /\ future' = [future EXCEPT ![f] =
                            [state |-> "finished",
                             exc |-> outcome = "raised" /\ ~Catches(outcome)]]
    /\ UNCHANGED <<mergeVars, threads, force, files_to_process, media, main_pc,
                   idx, analyzing, analysis_results, queue, futures, collected,
                   plan>>

\* as_completed yields a finished future; f.result() re-raises its exception
Collect(f) ==
    /\ main_pc = "collect"
    /\ f \in Range(futures) \ collected
    /\ future[f].state = "finished"
    /\ collected' = collected \cup {f}
    /\ main_pc' = IF future[f].exc THEN "raised" ELSE "collect"
    /\ UNCHANGED <<mergeVars, threads, force, files_to_process, media, idx,
                   analyzing, analysis_results, queue, future, futures, plan,
                   step, input_exists, output, stdout>>

\* every future was collected: the pool shuts down, "All done."
AllDone ==
    /\ main_pc = "collect"
    /\ collected = Range(futures)
    /\ main_pc' = "done"
    /\ stdout' = stdout \cup {<<"All done.", 0>>}
    /\ UNCHANGED <<mergeVars, threads, force, files_to_process, media, idx,
                   analyzing, analysis_results, queue, future, futures, collected,
                   plan, step, input_exists, output>>

---------------------------------------------------------------------------
(* Specifications *)

\* the batch, from the end of file discovery
Init == MergeIdle /\ BatchInit
Next ==
    \/ AnalyzeStart
    \/ AnalyzeFinish
    \/ AnalyzeFail
    \/ StartEncoding
    \/ Submit
    \/ WorkerStart
    \/ \E f \in Files : EncodeFinish(f)
    \/ \E f \in Files : Collect(f)
    \/ AllDone
Spec == Init /\ [][Next]_vars

\* merge_intervals on every pair of lists and threshold within the bounds
MergeNext == MergeRun
MergeSpecInit == MergeInit /\ BatchIdle
MergeSpec == MergeSpecInit /\ [][MergeNext]_vars

\* the analysis of one file whose two marker streams are arbitrary
DetectInit ==
    /\ MergeIdle
    /\ threads = 1 /\ force = FALSE
    /\ media \in [1..1 -> {[freeze_log |-> a, silence_log |-> b, duration |-> 9005] :
                              a \in DetectLogs, b \in DetectLogs}]
    /\ BatchStart(1)
DetectNext == AnalyzeStart \/ AnalyzeFinish \/ AnalyzeFail
DetectSpec == DetectInit /\ [][DetectNext]_vars

\* one job, from the end of the analysis of a file with any freeze and
\* silence lists over JobTimes
JobInit ==
    /\ MergeIdle
    /\ threads = 1
    /\ force \in BOOLEAN
    /\ media \in [1..1 -> JobMedia]
    /\ files_to_process = <<1>>
    /\ main_pc = "analyze"
    /\ idx = 2
    /\ analyzing = {}
    /\ analysis_results =
          <<[input_file |-> 1,
             freezes |-> detect_freezes(media[1].freeze_log),
             silences |-> detect_silences(media[1].silence_log),
             force |-> force]>>
    /\ queue = <<>>
    /\ future = [f \in 1..1 |-> NoFuture]
    /\ futures = <<>>
    /\ collected = {}
    /\ plan = [f \in 1..1 |-> NoPlan]
    /\ step = [f \in 1..1 |-> "none"]
    /\ input_exists = [f \in 1..1 |-> TRUE]
    /\ output = [f \in 1..1 |-> "none"]
    /\ stdout = {<<"Starting analysis", 1>>, <<"Analyzing", 1>>}
JobNext ==
    \/ StartEncoding
    \/ Submit
    \/ WorkerStart
    \/ \E f \in Files : EncodeFinish(f)
    \/ \E f \in Files : Collect(f)
    \/ AllDone
JobSpec == JobInit /\ [][JobNext]_vars

---------------------------------------------------------------------------
(* What the claims speak of, stated without the operators of the code *)

\* the intersections of positive length >= t over all pairs of A x B
QualifyingOverlaps(A, B, t) ==
    {m \in {<<Max(A[i][1], B[j][1]), Min(A[i][2], B[j][2])>> :
               i \in DOMAIN A, j \in DOMAIN B} :
        m[2] - m[1] > 0 /\ m[2] - m[1] >= t}

IsAscending(s) == \A k \in DOMAIN s : k < Len(s) => s[k][2] <= s[k + 1][1]
Contains(outer, inner) == outer[1] <= inner[1] /\ inner[2] <= outer[2]
TieAt(A, B) == \E i \in DOMAIN A, j \in DOMAIN B : A[i][2] = B[j][2] /\ A[i][1] < A[i][2]

\* the scan with the roles of the lists exchanged: the first list is now the
\* audio list, and a tie still advances the audio list's pointer
RECURSIVE SwappedLoop(_, _, _, _, _, _)
SwappedLoop(ag, vg, t, j, i, acc) ==
    IF ~(j <= Len(ag) /\ i <= Len(vg)) THEN acc
    ELSE LET os == IF ag[j][1] >= vg[i][1] THEN ag[j][1] ELSE vg[i][1]
             oe == IF ag[j][2] <= vg[i][2] THEN ag[j][2] ELSE vg[i][2]
             acc1 == IF oe > os /\ oe - os >= t THEN Append(acc, <<os, oe>>) ELSE acc
         IN IF ag[j][2] <= vg[i][2]
            THEN SwappedLoop(ag, vg, t, j + 1, i, acc1)
            ELSE SwappedLoop(ag, vg, t, j, i + 1, acc1)
merge_swapped(ag, vg, t) == SwappedLoop(ag, vg, t, 1, 1, <<>>)

IsStart(e) == e[1] # Empty
IsEnd(e) == e[2] # Empty
MaxOf(S) == CHOOSE x \in S : \A y \in S : y <= x
\* the starts before marker k that no end marker has followed yet
PendingStarts(ev, k) ==
    {s \in 1..(k - 1) : IsStart(ev[s]) /\ \A m \in (s + 1)..(k - 1) : ~IsEnd(ev[m])}
EmittingEnds(ev) == {k \in DOMAIN ev : IsEnd(ev[k]) /\ PendingStarts(ev, k) # {}}
IsPairingOf(ranges, ev) ==
    /\ Len(ranges) = Cardinality(EmittingEnds(ev))
    /\ \A k \in EmittingEnds(ev) :
          ranges[Cardinality({e \in EmittingEnds(ev) : e <= k})]
            = <<ev[MaxOf(PendingStarts(ev, k))][1], ev[k][2]>>

JobOf(f) == CHOOSE job \in Range(analysis_results) : job.input_file = f
Started(f) == f \in Files /\ plan[f] # NoPlan
GapsOf(f) == merge_intervals(JobOf(f).freezes, JobOf(f).silences, MinDuration)

\* the keep segments as the planner's contract gives them
RECURSIVE ClaimedKeep(_, _)
ClaimedKeep(gaps, k) ==
    IF k > Len(gaps) THEN <<>>
    ELSE LET prev == IF k = 1 THEN 0 ELSE gaps[k - 1][2]
         IN IF k > 1 /\ Abs(prev - gaps[k][1]) <= Epsilon
            THEN ClaimedKeep(gaps, k + 1)
            ELSE <<<<prev, gaps[k][1]>>>> \o ClaimedKeep(gaps, k + 1)

---------------------------------------------------------------------------
(* The claims *)

\* C1: for sorted, non-overlapping lists and a threshold t > 0 the merger
\* returns exactly the intersections of positive length >= t over all pairs,
\* in ascending time order and without duplicates; scenario 1 (10-20, 40-50
\* against 12-19, 41-49 at 1.5 s) gives 12-19, 41-49.
C1_MergeExact ==
    /\ (mpc = "done" /\ min_duration > 0) =>
          /\ IsAscending(merged)
          /\ Range(merged) = QualifyingOverlaps(video_gaps, audio_gaps, min_duration)
          /\ Len(merged) = Cardinality(Range(merged))
    /\ mpc = "done" =>
          merge_intervals(<<<<20000, 40000>>, <<80000, 100000>>>>,
                          <<<<24000, 38000>>, <<82000, 98000>>>>, MinDuration)
            = <<<<24000, 38000>>, <<82000, 98000>>>>
\* two overlaps are returned and a video gap ends together with an audio gap
C1_Witness ==
    /\ mpc = "done" /\ min_duration > 0
    /\ Len(merged) = 2
    /\ TieAt(video_gaps, audio_gaps)

\* C2: every returned interval has end > start and length >= t, lies in
\* exactly one element of A and exactly one of B, and is their intersection.
C2_MergedWithinOnePair ==
    mpc = "done" =>
      \A m \in Range(merged) :
        /\ m[2] > m[1]
        /\ m[2] - m[1] >= min_duration
        /\ \E i \in DOMAIN video_gaps, j \in DOMAIN audio_gaps :
              /\ \A i2 \in DOMAIN video_gaps : Contains(video_gaps[i2], m) <=> i2 = i
              /\ \A j2 \in DOMAIN audio_gaps : Contains(audio_gaps[j2], m) <=> j2 = j
              /\ m[1] = Max(video_gaps[i][1], audio_gaps[j][1])
              /\ m[2] = Min(video_gaps[i][2], audio_gaps[j][2])
\* threshold 0, an interval is returned, and some pair only touches
C2_Witness ==
    /\ mpc = "done" /\ min_duration = 0 /\ merged # <<>>
    /\ \E i \in DOMAIN video_gaps, j \in DOMAIN audio_gaps :
          Max(video_gaps[i][1], audio_gaps[j][1]) = Min(video_gaps[i][2], audio_gaps[j][2])

\* C3: the planner emits (previous gap's end or 0, gap.start) per gap, leaving
\* out only a segment that starts within 0.001 s of the previous gap's end,
\* then a trailing segment from the last gap's end; no cut region meets a
\* keep segment.
C3_KeepSegmentsClaim ==
    \A f \in Files :
      (Started(f) /\ plan[f].op = "concat") =>
        LET gaps == GapsOf(f)
        IN /\ plan[f].segs = ClaimedKeep(gaps, 1)
           /\ plan[f].tail = gaps[Len(gaps)][2]
           /\ \A g \in Range(gaps) :
                 /\ g[2] <= plan[f].tail
                 /\ \A sg \in Range(plan[f].segs) :
                       Max(g[1], sg[1]) >= Min(g[2], sg[2])

\* C4: a job's input file is deleted exactly when its copy/encode step
\* returned; when the step raised, the file is still there, "Error encoding"
\* is printed with the file, and the future holds no exception; at any time
\* an input file is absent only if its step has succeeded.
C4_DeleteIffSuccess ==
    \A f \in Files :
      /\ ~input_exists[f] => step[f] = "ok"
      /\ future[f].state = "finished" =>
            /\ ~input_exists[f] <=> step[f] = "ok"
            /\ step[f] = "raised" =>
                  /\ input_exists[f]
                  /\ <<"Error encoding", f>> \in stdout
                  /\ ~future[f].exc
\* one job has failed and kept its input, another has succeeded and lost it
C4_Witness ==
    \E f, g \in Files :
      /\ future[f].state = "finished" /\ step[f] = "raised" /\ input_exists[f]
      /\ future[g].state = "finished" /\ step[g] = "ok" /\ ~input_exists[g]

\* C5: if the encode step of a submitted job raised, main ends by raising
\* and does not reach "All done.".
C5_FailureSurfacedClaim ==
    main_pc = "done" => \A f \in Files : step[f] # "raised"

\* C6: no job is submitted or run before every selected file has been
\* analyzed; at most one file is being analyzed at a time; one job is
\* submitted per analyzed file, and no other.
C6_PhasesOrdered ==
    /\ Cardinality(analyzing) <= 1
    /\ (futures # <<>> \/ \E f \in Files : future[f].state # "none" \/ Started(f)) =>
          /\ analyzing = {}
          /\ \A f \in Files : \E k \in DOMAIN analysis_results :
                analysis_results[k].input_file = f
    /\ \A k \in DOMAIN futures :
          /\ \E r \in DOMAIN analysis_results : analysis_results[r].input_file = futures[k]
          /\ \A k2 \in DOMAIN futures : futures[k2] = futures[k] => k2 = k
    /\ main_pc \in {"collect", "done"} =>
          \A r \in DOMAIN analysis_results :
            Cardinality({k \in DOMAIN futures :
                           futures[k] = analysis_results[r].input_file}) = 1
\* two files were analyzed; one job runs while the other is still queued
C6_Witness ==
    /\ Len(analysis_results) = 2
    /\ \E f, g \in Files : future[f].state = "running" /\ future[g].state = "pending"

\* C7: a single cut region from 0 to the end of the file gives no keep
\* segment and no trim-and-concatenate filter graph.
C7_WholeFileGapClaim ==
    \A f \in Files :
      (Started(f) /\ GapsOf(f) = <<<<0, media[f].duration>>>>) =>
        /\ plan[f].segs = <<>>
        /\ plan[f].n = 0
        /\ plan[f].op # "concat"

C9_NoGapsCopyOrReencode ==
    /\ \A f \in Files :
         (Started(f) /\
          QualifyingOverlaps(JobOf(f).freezes, JobOf(f).silences, MinDuration) = {}) =>
            /\ plan[f].op = IF force THEN "reencode" ELSE "copy"
            /\ plan[f].segs = <<>>
            /\ plan[f].n = 0
            /\ <<"No significant gaps", f>> \in stdout
            /\ step[f] = "ok" => (~input_exists[f] /\ output[f] = plan[f].op)
    /\ main_pc = "done" =>
         /\ merge_intervals(<<<<0, 10000>>>>, <<<<20000, 30000>>>>, MinDuration) = <<>>
         /\ cut_gaps_with_analysis(<<<<0, 10000>>>>, <<<<20000, 30000>>>>, FALSE).op = "copy"
\* freezes and silences were both detected, none overlap long enough, and the
\* copy has succeeded
C9_Witness ==
    \E f \in Files :
      /\ Started(f) /\ step[f] = "ok" /\ output[f] = "copy"
      /\ JobOf(f).freezes # <<>> /\ JobOf(f).silences # <<>>
      /\ \E a \in Range(JobOf(f).freezes), b \in Range(JobOf(f).silences) :
            Min(a[2], b[2]) - Max(a[1], b[1]) = 2999

===========================================================================
